---- MODULE Spec2Model ----
(***************************************************************************)
(* Model of the Apple Music grabber page (src/src/routes/+page.svelte) and *)
(* its session store (src/unnamed/part_000).                               *)
(*                                                                         *)
(* The page source holds two variants of the page script.  Variant 1 is    *)
(* lines 1-152 (synchronous configure, plain authorize, two single         *)
(* requests); variant 2 is lines 363-574 (awaited configure, authorize     *)
(* with side-channel recovery, paginated recent-track fetch).  One of them *)
(* is mounted; `variant` says which.                                       *)
(*                                                                         *)
(* Strings are sequences of string pieces: '' is <<>>, a template literal  *)
(* is the concatenation of its pieces.  null is <<>> and a present value v *)
(* is <<v>> for the variables that hold objects.  JavaScript's undefined   *)
(* and '' are both falsy and are both modelled by the empty token.         *)
(***************************************************************************)
EXTENDS Naturals, Sequences, FiniteSets

VARIABLES
    variant,        \* which page script is mounted: 1 or 2
    mount,          \* onMount progress: "unmounted", "listening", "done"
    musicKitStore,  \* the session store
    devToken,       \* $state bound to the token input
    replayData,     \* $state
    recentTracks,   \* $state
    error,          \* $state
    loading,        \* $state
    configuring,    \* tokens of the MusicKit.configure calls still awaited
    auth,           \* the authorize() call in flight
    fetching,       \* the getReplayData() call in flight
    last            \* what the most recent handler step did

vars == << variant, mount, musicKitStore, devToken, replayData, recentTracks,
           error, loading, configuring, auth, fetching, last >>

----------------------------------------------------------------------------
(* Bounds and program constants *)

\* at most this many MusicKit.configure calls are awaited at once
MaxPending == 2

\* the length of a page that is neither empty nor full
ShortPage == 3

\* the longest list of raw tracks given to extractRecentTracks
MaxTracks == 2

\* limit=10 of each page request and the offset step
pageSize == 10

\* the loop bound of the offsets
maxItems == 50

----------------------------------------------------------------------------
(* Values *)

Null == << >>

Some(v) == << v >>

Empty == << >>

\* what can be typed into the token input
DevTokens == { << >>, << " " >>, << "a" >>, << " ", "b" >> }

\* what the SDK can hand out as a music user token; Empty is '' or undefined
UserTokens == { Empty, << "u" >>, << "v" >> }

\* the object MusicKit.getInstance() returns
Instance == "MusicKitInstance"

\* a thrown value: an Error with its name and message, or a plain object;
\* errorCode is "" where the value has none
Thrown(kind, name, errorCode, message) ==
    [kind |-> kind, name |-> name, errorCode |-> errorCode, message |-> message]

\* what instance.authorize() can reject with
AuthErrors ==
    { Thrown("Error", "Error", "ACCESS_DENIED", "denied"),
      Thrown("Error", "Error", "CONFIGURATION_ERROR", "bad token"),
      Thrown("Error", "Error", "STOREFRONT", "storefront"),
      Thrown("Error", "Error", "", ""),
      Thrown("Error", "", "", ""),
      Thrown("object", "", "", "") }

\* the TypeError of the access to a member of null
NoInstanceError(member) ==
    Thrown("Error", "TypeError", "",
           IF member = "authorize"
           THEN "Cannot read properties of null (reading 'authorize')"
           ELSE "Cannot read properties of null (reading 'musicUserToken')")

\* new Error('No music user token received') has no errorCode
NoTokenError == Thrown("Error", "Error", "", "No music user token received")

\* the lengths a page of results can have
PageLens == { 0, ShortPage, pageSize }

Truthy(s) == s # Empty

IsWhitespace(c) == c = " "

RECURSIVE TrimStart(_)
TrimStart(s) ==
    IF s = << >> THEN << >>
    ELSE IF IsWhitespace(Head(s)) THEN TrimStart(Tail(s))
    ELSE s

RECURSIVE TrimEnd(_)
TrimEnd(s) ==
    IF s = << >> THEN << >>
    ELSE IF IsWhitespace(s[Len(s)]) THEN TrimEnd(SubSeq(s, 1, Len(s) - 1))
    ELSE s

\* a trim that strips nothing
TrimNothing(s) == s

\* String.prototype.trim
Trim(s) == TrimEnd(TrimStart(s))

\* the items of the page at `offset` holding `n` items: the item at position
\* p of the listening history is named by p
Page(offset, n) == [i \in 1..n |-> offset + i]

\* the sequence s without its i-th element
Without(s, i) == SubSeq(s, 1, i - 1) \o SubSeq(s, i + 1, Len(s))

----------------------------------------------------------------------------
(* The session store and its updates *)

InitialStore ==
    [ isLoaded |-> FALSE,
      isConfigured |-> FALSE,
      isAuthorized |-> FALSE,
      developerToken |-> Empty,
      musicUserToken |-> Empty,
      instance |-> Null ]

LoadedStore(state) == [state EXCEPT !.isLoaded = TRUE]

\* an update that builds the state afresh instead of spreading the old one
ConfiguredStoreFresh(state, token, instance) ==
    [InitialStore EXCEPT !.isLoaded = TRUE,
                         !.isConfigured = TRUE,
                         !.developerToken = token,
                         !.instance = Some(instance)]

ConfiguredStore(state, token, instance) ==
    [state EXCEPT !.isConfigured = TRUE,
                  !.developerToken = token,
                  !.instance = Some(instance)]

\* an update that stores the token without the flag
AuthorizedStoreNoFlag(state, token) ==
    [state EXCEPT !.musicUserToken = token]

AuthorizedStore(state, token) ==
    [state EXCEPT !.isAuthorized = TRUE,
                  !.musicUserToken = token]

----------------------------------------------------------------------------
(* The calls in flight *)

\* instance is the instance the call took from the store; authError is the
\* caught rejection of instance.authorize(); thrown tells whether there is one
AuthIdle ==
    [ pc |-> "idle", instance |-> Null, thrown |-> FALSE,
      authError |-> NoTokenError ]

\* requests are the offsets of the page requests issued so far by the call,
\* pages the lengths of the pages received so far, hadResult whether a result
\* of an earlier call was held when the call began
FetchIdle ==
    [ pc |-> "idle", offset |-> 0, allTracks |-> << >>,
      headers |-> [Authorization |-> << >>, MusicUserToken |-> << >>],
      requests |-> << >>, pages |-> << >>, hadResult |-> FALSE ]

\* a handler step: which handler, how it went on, the SDK members and network
\* calls it used
Did(op, outcome, calls) ==
    [op |-> op, outcome |-> outcome, calls |-> calls, value |-> << >>]

\* the same, with the values the step worked on
DidWith(op, outcome, calls, value) ==
    [op |-> op, outcome |-> outcome, calls |-> calls, value |-> value]

Init ==
    /\ variant \in {1, 2}
    /\ mount = "unmounted"
    /\ musicKitStore = InitialStore
    /\ devToken = Empty
    /\ replayData = Null
    /\ recentTracks = Null
    /\ error = Empty
    /\ loading = FALSE
    /\ configuring = << >>
    /\ auth = AuthIdle
    /\ fetching = FetchIdle
    /\ last = Did("none", "none", {})

----------------------------------------------------------------------------
(* onMount and the musickitloaded event *)

\* onMount: window.MusicKit is there already, or a listener is registered
OnMount ==
    /\ mount = "unmounted"
    /\ \E present \in BOOLEAN :
         IF present
         THEN /\ musicKitStore' = LoadedStore(musicKitStore)
              /\ mount' = "done"
         ELSE /\ musicKitStore' = musicKitStore
              /\ mount' = "listening"
    /\ last' = Did("onMount", "ok", {})
    /\ UNCHANGED << variant, devToken, replayData, recentTracks, error, loading,
                    configuring, auth, fetching >>

\* the musickitloaded event reaches the registered listener
MusicKitLoaded ==
    /\ mount = "listening"
    /\ musicKitStore' = LoadedStore(musicKitStore)
    /\ last' = Did("musickitloaded", "ok", {})
    /\ UNCHANGED << variant, mount, devToken, replayData, recentTracks, error,
                    loading, configuring, auth, fetching >>

----------------------------------------------------------------------------
(* The token input and configureMusicKit *)

\* the page shows the token input and the Configure button
OffersConfigure ==
    /\ mount # "unmounted"
    /\ musicKitStore.isLoaded
    /\ ~musicKitStore.isConfigured

\* bind:value={devToken}
EditToken ==
    /\ OffersConfigure
    /\ \E t \in DevTokens : devToken' = t
    /\ devToken' # devToken
    /\ UNCHANGED << variant, mount, musicKitStore, replayData, recentTracks,
                    error, loading, configuring, auth, fetching, last >>

\* the guard of configureMusicKit: nothing is left of the token once trimmed
TokenMissing(token) == ~Truthy(Trim(token))

\* a catch block that keeps the token of the failed attempt
ConfigureCaughtStorePartial(state, token) ==
    [state EXCEPT !.developerToken = token]

\* the store once the catch block of configureMusicKit has run: the block
\* does not update it
ConfigureCaughtStore(state, token) == state

\* `Configuration failed: ${e}`
ConfigurationFailedMessage(e) == << "Configuration failed: ", e >>

\* configureMusicKit with nothing in the input: the early return
ConfigureRefused ==
    /\ OffersConfigure
    /\ TokenMissing(devToken)
    /\ error' = << "Please enter a developer token" >>
    /\ last' = DidWith("configureMusicKit", "refused", {}, devToken)
    /\ UNCHANGED << variant, mount, musicKitStore, devToken, replayData,
                    recentTracks, loading, configuring, auth, fetching >>

\* variant 1: configure and getInstance are called in the same step
ConfigureSync ==
    /\ variant = 1
    /\ OffersConfigure
    /\ ~TokenMissing(devToken)
    /\ \E outcome \in {"ok", "configureThrows", "getInstanceThrows"} :
         /\ IF outcome = "ok"
            THEN /\ musicKitStore' = ConfiguredStore(musicKitStore, devToken, Instance)
                 /\ error' = Empty
            ELSE /\ musicKitStore' = ConfigureCaughtStore(musicKitStore, devToken)
                 /\ error' = ConfigurationFailedMessage(outcome)
         /\ last' = DidWith("configureMusicKit",
                            IF outcome = "ok" THEN "ok" ELSE "failed",
                            IF outcome = "configureThrows"
                            THEN {"configure"} ELSE {"configure", "getInstance"},
                            devToken)
    /\ UNCHANGED << variant, mount, devToken, replayData, recentTracks, loading,
                    configuring, auth, fetching >>

\* variant 2: MusicKit.configure is called with the token and awaited
ConfigureStart ==
    /\ variant = 2
    /\ OffersConfigure
    /\ ~TokenMissing(devToken)
    /\ Len(configuring) < MaxPending
    /\ configuring' = Append(configuring, devToken)
    /\ last' = DidWith("configureMusicKit", "awaiting", {"configure"}, devToken)
    /\ UNCHANGED << variant, mount, musicKitStore, devToken, replayData,
                    recentTracks, error, loading, auth, fetching >>

\* variant 2: an awaited MusicKit.configure settles and the handler runs on
ConfigureSettle ==
    /\ variant = 2
    /\ \E i \in 1..Len(configuring) :
         /\ configuring' = Without(configuring, i)
         /\ \E outcome \in {"ok", "configureRejects", "getInstanceThrows"} :
              /\ IF outcome = "ok"
                 THEN /\ musicKitStore' =
                            ConfiguredStore(musicKitStore, devToken, Instance)
                      /\ error' = Empty
                 ELSE /\ musicKitStore' =
                            ConfigureCaughtStore(musicKitStore, devToken)
                      /\ error' = ConfigurationFailedMessage(outcome)
              /\ last' = DidWith("configureMusicKit",
                                 IF outcome = "ok" THEN "ok" ELSE "failed",
                                 IF outcome = "configureRejects"
                                 THEN {} ELSE {"getInstance"},
                                 configuring[i])
    /\ UNCHANGED << variant, mount, devToken, replayData, recentTracks, loading,
                    auth, fetching >>

----------------------------------------------------------------------------
(* authorize *)

\* a finally block that leaves the flag as it finds it
FinallyLoadingKept(flag) == flag

\* loading = false in the finally block of authorize and of getReplayData
FinallyLoading(flag) == FALSE

\* the page shows the Login button and it is not disabled
OffersAuthorize ==
    /\ musicKitStore.isLoaded
    /\ musicKitStore.isConfigured
    /\ ~musicKitStore.isAuthorized
    /\ ~loading

\* String(e) of a thrown value: Error.prototype.toString gives the name
\* alone when the message is empty, the message alone when the name is empty
\* and "name: message" otherwise; a plain object gives "[object Object]"
ErrorText(e) ==
    IF e.kind = "object" THEN << "[object Object]" >>
    ELSE IF e.name = "" THEN (IF e.message = "" THEN << >> ELSE << e.message >>)
    ELSE IF e.message = "" THEN << e.name >>
    ELSE << e.name, ": ", e.message >>

\* variant 1: `Authorization failed: ${e}`
AuthorizationFailedMessage(e) == << "Authorization failed: " >> \o ErrorText(e)

\* a handler that reports every failure the same way
AuthErrorMessageFlat(e) == << "Authorization failed: " >>

\* variant 2: the message of the final error handler
AuthErrorMessage(e) ==
    IF e.errorCode = "ACCESS_DENIED"
    THEN << "Authorization was denied or cancelled" >>
    ELSE IF e.errorCode = "CONFIGURATION_ERROR"
    THEN << "Invalid developer token - please check and try again" >>
    ELSE << "Authorization failed: " >>
         \o (IF e.message # "" THEN << e.message >> ELSE ErrorText(e))

\* a check that lets every token through
TokenReceivedAlways(token) == TRUE

\* variant 2: the `!musicUserToken` checks before the store is updated
TokenReceived(token) == Truthy(token)

\* what an authorize() call worked on: the value instance.authorize() returned,
\* the value the side channel gave, whether the side channel was read, and the
\* rejection if there was one
AuthValues(returned, side, sideRead, thrown, e) ==
    [ returned |-> returned, side |-> side, sideRead |-> sideRead,
      thrown |-> thrown, authError |-> e ]

\* an end that shows the caught rejection although a token was found
AuthorizeCommitSurfacing(token, outcome, calls, value) ==
    /\ musicKitStore' = AuthorizedStore(musicKitStore, token)
    /\ error' = IF value.thrown THEN << "Authorization failed: " >> ELSE error
    /\ loading' = FinallyLoading(loading)
    /\ auth' = AuthIdle
    /\ last' = DidWith("authorize", outcome, calls, value)
    /\ UNCHANGED << variant, mount, devToken, replayData, recentTracks,
                    configuring, fetching >>

\* the end of an authorize() call that updates the store with `token`
AuthorizeCommit(token, outcome, calls, value) ==
    /\ musicKitStore' = AuthorizedStore(musicKitStore, token)
    /\ loading' = FinallyLoading(loading)
    /\ auth' = AuthIdle
    /\ last' = DidWith("authorize", outcome, calls, value)
    /\ UNCHANGED << variant, mount, devToken, replayData, recentTracks, error,
                    configuring, fetching >>

\* the end of an authorize() call in the final error handler
AuthorizeFail(message, calls, value) ==
    /\ error' = message
    /\ loading' = FinallyLoading(loading)
    /\ auth' = AuthIdle
    /\ last' = DidWith("authorize", "failed", calls, value)
    /\ UNCHANGED << variant, mount, musicKitStore, devToken, replayData,
                    recentTracks, configuring, fetching >>

\* authorize() up to its await of instance.authorize()
AuthorizeStart ==
    /\ OffersAuthorize
    /\ auth.pc = "idle"
    /\ loading' = TRUE
    /\ error' = Empty
    /\ auth' = [AuthIdle EXCEPT !.pc = "authorize",
                                !.instance = musicKitStore.instance]
    /\ last' = Did("authorize", "awaiting", {"authorize"})
    /\ UNCHANGED << variant, mount, musicKitStore, devToken, replayData,
                    recentTracks, configuring, fetching >>

\* variant 1: instance.authorize() resolves; the token is read off the instance
AuthorizeResolves1 ==
    /\ variant = 1
    /\ auth.pc = "authorize"
    /\ \E returned \in UserTokens, instanceToken \in UserTokens :
         AuthorizeCommit(instanceToken, "direct", {"musicUserToken"},
                         AuthValues(returned, instanceToken, TRUE, FALSE,
                                    NoTokenError))

\* variant 1: instance.authorize() rejects
AuthorizeRejects1 ==
    /\ variant = 1
    /\ auth.pc = "authorize"
    /\ \E e \in AuthErrors :
         AuthorizeFail(AuthorizationFailedMessage(e), {},
                       AuthValues(Empty, Empty, FALSE, TRUE, e))

\* variant 2: instance.authorize() resolves with a value
AuthorizeResolves2 ==
    /\ variant = 2
    /\ auth.pc = "authorize"
    /\ \E returned \in UserTokens :
         IF TokenReceived(returned)
         THEN AuthorizeCommit(returned, "direct", {},
                              AuthValues(returned, Empty, FALSE, FALSE,
                                         NoTokenError))
         ELSE AuthorizeFail(AuthErrorMessage(NoTokenError), {},
                            AuthValues(returned, Empty, FALSE, FALSE,
                                       NoTokenError))

\* variant 2: instance.authorize() rejects and the 500 ms wait begins
AuthorizeRejects2 ==
    /\ variant = 2
    /\ auth.pc = "authorize"
    /\ \E e \in AuthErrors :
         auth' = [auth EXCEPT !.pc = "delay", !.thrown = TRUE, !.authError = e]
    /\ last' = Did("authorize", "delaying", {})
    /\ UNCHANGED << variant, mount, musicKitStore, devToken, replayData,
                    recentTracks, error, loading, configuring, fetching >>

\* variant 2: the wait is over; instance.musicUserToken and
\* instance.isAuthorized are read
DelayElapsed ==
    /\ variant = 2
    /\ auth.pc = "delay"
    /\ auth.instance # Null
    /\ \E instanceToken \in UserTokens, instanceIsAuthorized \in BOOLEAN :
         IF ~Truthy(instanceToken) /\ instanceIsAuthorized
         THEN /\ auth' = [auth EXCEPT !.pc = "apiToken"]
              /\ last' = Did("authorize", "awaitingApi",
                             {"musicUserToken", "isAuthorized",
                              "api.musicUserToken"})
              /\ UNCHANGED << variant, mount, musicKitStore, devToken,
                              replayData, recentTracks, error, loading,
                              configuring, fetching >>
         ELSE IF TokenReceived(instanceToken)
         THEN AuthorizeCommit(instanceToken, "recovered",
                              {"musicUserToken", "isAuthorized"},
                              AuthValues(Empty, instanceToken, TRUE, TRUE,
                                         auth.authError))
         ELSE AuthorizeFail(AuthErrorMessage(auth.authError),
                            {"musicUserToken", "isAuthorized"},
                            AuthValues(Empty, instanceToken, TRUE, TRUE,
                                       auth.authError))

\* variant 2: the awaited instance.api.musicUserToken settles; a rejection is
\* caught and leaves no token
ApiTokenSettles ==
    /\ variant = 2
    /\ auth.pc = "apiToken"
    /\ \E resolves \in BOOLEAN, userToken \in UserTokens :
         LET token == IF resolves THEN userToken ELSE Empty IN
         /\ ~resolves => userToken = Empty
         /\ IF TokenReceived(token)
            THEN AuthorizeCommit(token, "recovered", {},
                                 AuthValues(Empty, token, TRUE, TRUE,
                                            auth.authError))
            ELSE AuthorizeFail(AuthErrorMessage(auth.authError), {},
                               AuthValues(Empty, Empty, TRUE, TRUE,
                                          auth.authError))

----------------------------------------------------------------------------
(* getReplayData *)

\* the page shows the Get button and it is not disabled
OffersFetch ==
    /\ musicKitStore.isLoaded
    /\ musicKitStore.isConfigured
    /\ musicKitStore.isAuthorized
    /\ ~loading

\* the headers of every request of a call
Headers(state) ==
    [ Authorization |-> << "Bearer " >> \o state.developerToken,
      MusicUserToken |-> state.musicUserToken ]

\* a loop that also runs at the bound
MorePagesInclusive(offset) == offset <= maxItems

\* variant 2: the loop condition
MorePages(offset) == offset < maxItems

\* variant 2: batch.data && batch.data.length > 0
HasTracks(batch) == Len(batch) > 0

\* an accumulation that puts the new page first
PushFront(allTracks, batch) == batch \o allTracks

\* variant 2: allTracks.push(...batch.data)
Push(allTracks, batch) == allTracks \o batch

\* a failure handler that exposes what was gathered
CaughtResultPartial(result, allTracks) == Some([data |-> allTracks])

\* recentTracks once the catch block has run: the block does not assign it
CaughtResult(result, allTracks) == result

\* `Failed to fetch data: ${e}`
FetchFailedMessage(e) == << "Failed to fetch data: ", e >>

\* what a getReplayData() call has requested and received
FetchValues(f) == [ requests |-> f.requests, pages |-> f.pages,
                    headers |-> f.headers, hadResult |-> f.hadResult ]

\* a failure handler that signs the user out
FetchCaughtStoreSignedOut(state) ==
    [state EXCEPT !.isAuthorized = FALSE, !.musicUserToken = Empty]

\* the store once the catch block has run: the block does not update it
FetchCaughtStore(state) == state

\* the catch and finally blocks of getReplayData()
FetchFail(e) ==
    /\ error' = FetchFailedMessage(e)
    /\ recentTracks' = CaughtResult(recentTracks, fetching.allTracks)
    /\ musicKitStore' = FetchCaughtStore(musicKitStore)
    /\ loading' = FinallyLoading(loading)
    /\ fetching' = FetchIdle
    /\ last' = DidWith("getReplayData", "failed", {}, FetchValues(fetching))
    /\ UNCHANGED << variant, mount, devToken, replayData, configuring, auth >>

\* a call that begins with the result of the call before it
ResetResultKeep(result) == result

\* recentTracks = null at the start of getReplayData()
ResetResult(result) == Null

\* getReplayData() up to its first await
FetchBegin ==
    /\ fetching.pc = "idle"
    /\ loading' = TRUE
    /\ error' = Empty
    /\ replayData' = Null
    /\ recentTracks' = ResetResult(recentTracks)
    /\ fetching' = [FetchIdle EXCEPT
                      !.pc = IF variant = 1 THEN "replay" ELSE "page",
                      !.hadResult = recentTracks # Null,
                      !.headers = Headers(musicKitStore),
                      !.requests = << 0 >>]
    /\ last' = Did("getReplayData", "awaiting", {"fetch"})
    /\ UNCHANGED << variant, mount, musicKitStore, devToken, configuring, auth >>

\* the Get button is clicked
FetchStart ==
    /\ OffersFetch
    /\ FetchBegin

\* an awaited fetch has resolved with an ok response: the handler goes on to
\* await the body
AwaitBody(pc) ==
    /\ fetching' = [fetching EXCEPT !.pc = pc]
    /\ last' = Did("getReplayData", "awaiting", {"json"})
    /\ UNCHANGED << variant, mount, musicKitStore, devToken, replayData,
                    recentTracks, error, loading, configuring, auth >>

\* variant 1: the replay request settles
ReplayResponds ==
    /\ variant = 1
    /\ fetching.pc = "replay"
    /\ \E outcome \in {"ok", "status", "network"} :
         IF outcome = "ok" THEN AwaitBody("replayBody") ELSE FetchFail(outcome)

\* variant 1: the awaited replayResponse.json() settles
ReplayBodySettles ==
    /\ variant = 1
    /\ fetching.pc = "replayBody"
    /\ \E outcome \in {"ok", "json"} :
         IF outcome = "ok"
         THEN /\ replayData' = Some([data |-> << >>])
              /\ fetching' = [fetching EXCEPT !.pc = "recent",
                                              !.requests = Append(@, 0)]
              /\ last' = Did("getReplayData", "awaiting", {"fetch"})
              /\ UNCHANGED << variant, mount, musicKitStore, devToken,
                              recentTracks, error, loading, configuring, auth >>
         ELSE FetchFail(outcome)

\* variant 1: the recent-tracks request settles
RecentResponds ==
    /\ variant = 1
    /\ fetching.pc = "recent"
    /\ \E outcome \in {"ok", "status", "network"} :
         IF outcome = "ok" THEN AwaitBody("recentBody") ELSE FetchFail(outcome)

\* variant 1: the awaited recentResponse.json() settles
RecentBodySettles ==
    /\ variant = 1
    /\ fetching.pc = "recentBody"
    /\ \E outcome \in {"ok", "json"} :
         IF outcome = "ok"
         THEN \E n \in PageLens :
                /\ recentTracks' = Some([data |-> Page(0, n)])
                /\ loading' = FinallyLoading(loading)
                /\ fetching' = FetchIdle
                /\ last' = DidWith("getReplayData", "ok", {},
                                   FetchValues([fetching EXCEPT
                                                  !.pages = << n >>]))
                /\ UNCHANGED << variant, mount, musicKitStore, devToken,
                                replayData, error, configuring, auth >>
         ELSE FetchFail(outcome)

\* a loop that goes on to the next offset when a request has failed
PageFailsContinue ==
    /\ variant = 2
    /\ fetching.pc = "page"
    /\ fetching' = [fetching EXCEPT
                      !.offset = @ + pageSize,
                      !.requests = Append(@, fetching.offset + pageSize)]
    /\ Len(fetching.requests) < maxItems \div pageSize
    /\ last' = Did("getReplayData", "awaiting", {"fetch"})
    /\ UNCHANGED << variant, mount, musicKitStore, devToken, replayData,
                    recentTracks, error, loading, configuring, auth >>

\* variant 2: the request of the page at fetching.offset fails, or answers
\* with a status that is not ok
PageFails ==
    /\ variant = 2
    /\ fetching.pc = "page"
    /\ \E outcome \in {"status", "network"} :
         IF outcome = "status"
         THEN /\ fetching' = [fetching EXCEPT !.pc = "errorText"]
              /\ last' = Did("getReplayData", "awaitingText", {})
              /\ UNCHANGED << variant, mount, musicKitStore, devToken,
                              replayData, recentTracks, error, loading,
                              configuring, auth >>
         ELSE FetchFail(outcome)

\* variant 2: the awaited recentResponse.text() settles and the call throws:
\* the status error when text() resolved, the rejection of text() otherwise
ErrorTextSettles ==
    /\ variant = 2
    /\ fetching.pc = "errorText"
    /\ \E outcome \in {"status", "text"} : FetchFail(outcome)

\* variant 2: the request of the page at fetching.offset is answered with an
\* ok response
PageResponds ==
    /\ variant = 2
    /\ fetching.pc = "page"
    /\ AwaitBody("body")

\* variant 2: the awaited recentResponse.json() rejects
BodyFails ==
    /\ variant = 2
    /\ fetching.pc = "body"
    /\ FetchFail("json")

\* variant 2: the awaited recentResponse.json() resolves: the page at
\* fetching.offset has n items
PageArrives ==
    /\ variant = 2
    /\ fetching.pc = "body"
    /\ \E n \in PageLens :
         LET batch == Page(fetching.offset, n)
             got == [fetching EXCEPT !.pages = Append(@, n)]
             allTracks == IF HasTracks(batch)
                          THEN Push(fetching.allTracks, batch)
                          ELSE fetching.allTracks
             offset == fetching.offset + pageSize
         IN
         IF HasTracks(batch) /\ MorePages(offset)
         THEN /\ fetching' = [got EXCEPT !.pc = "page",
                                         !.offset = offset,
                                         !.allTracks = allTracks,
                                         !.requests = Append(@, offset)]
              /\ last' = Did("getReplayData", "awaiting", {"fetch"})
              /\ UNCHANGED << variant, mount, musicKitStore, devToken,
                              replayData, recentTracks, error, loading,
                              configuring, auth >>
         ELSE /\ recentTracks' = Some([data |-> allTracks])
              /\ loading' = FinallyLoading(loading)
              /\ fetching' = FetchIdle
              /\ last' = DidWith("getReplayData", "ok", {}, FetchValues(got))
              /\ UNCHANGED << variant, mount, musicKitStore, devToken,
                              replayData, error, configuring, auth >>

----------------------------------------------------------------------------
(* The specification *)

Next ==
    \/ OnMount
    \/ MusicKitLoaded
    \/ EditToken
    \/ ConfigureRefused
    \/ ConfigureSync
    \/ ConfigureStart
    \/ ConfigureSettle
    \/ AuthorizeStart
    \/ AuthorizeResolves1
    \/ AuthorizeRejects1
    \/ AuthorizeResolves2
    \/ AuthorizeRejects2
    \/ DelayElapsed
    \/ ApiTokenSettles
    \/ FetchStart
    \/ ReplayResponds
    \/ ReplayBodySettles
    \/ RecentResponds
    \/ RecentBodySettles
    \/ PageFails
    \/ ErrorTextSettles
    \/ PageResponds
    \/ BodyFails
    \/ PageArrives

Spec == Init /\ [][Next]_vars

----------------------------------------------------------------------------
(* The handlers called where the page does not offer them *)

\* authorize() is called while the store holds no instance: the member access
\* instance.authorize throws inside the try block.  Variant 1 ends in its
\* catch block; variant 2 catches the TypeError as authError and waits.
AuthorizeWithoutInstance ==
    /\ musicKitStore.instance = Null
    /\ auth.pc = "idle"
    /\ fetching.pc = "idle"
    /\ IF variant = 1
       THEN AuthorizeFail(AuthorizationFailedMessage(NoInstanceError("authorize")),
                          {},
                          AuthValues(Empty, Empty, FALSE, TRUE,
                                     NoInstanceError("authorize")))
       ELSE /\ loading' = TRUE
            /\ error' = Empty
            /\ auth' = [AuthIdle EXCEPT !.pc = "delay", !.thrown = TRUE,
                                        !.authError =
                                            NoInstanceError("authorize")]
            /\ last' = Did("authorize", "delaying", {})
            /\ UNCHANGED << variant, mount, musicKitStore, devToken,
                            replayData, recentTracks, configuring, fetching >>

\* variant 2: the wait is over and instance.musicUserToken is read off null:
\* the TypeError leaves the catch block for the final error handler
DelayElapsedWithoutInstance ==
    /\ variant = 2
    /\ auth.pc = "delay"
    /\ auth.instance = Null
    /\ AuthorizeFail(AuthErrorMessage(NoInstanceError("musicUserToken")), {},
                     AuthValues(Empty, Empty, FALSE, TRUE,
                                NoInstanceError("musicUserToken")))

\* getReplayData() is called while the store is configured and not authorized
FetchUnauthorized ==
    /\ musicKitStore.isConfigured
    /\ ~musicKitStore.isAuthorized
    /\ auth.pc = "idle"
    /\ FetchBegin

NextCaller ==
    \/ Next
    \/ AuthorizeWithoutInstance
    \/ DelayElapsedWithoutInstance
    \/ FetchUnauthorized

SpecCaller == Init /\ [][NextCaller]_vars

----------------------------------------------------------------------------
(* What the claims speak about *)

\* an authorize() call of variant 2 has just ended
AuthorizeEnded ==
    /\ variant = 2
    /\ last.op = "authorize"
    /\ last.outcome \in {"direct", "recovered", "failed"}

\* a getReplayData() call of variant 2 has just ended with a result
FetchSucceeded ==
    /\ variant = 2
    /\ last.op = "getReplayData"
    /\ last.outcome = "ok"

\* the messages configureMusicKit can leave in `error` when it fails
ConfigureFailures ==
    { << "Configuration failed: ", o >> :
        o \in {"configureThrows", "configureRejects", "getInstanceThrows"} }

\* the category of a rejection of instance.authorize()
ErrorCategory(e) ==
    IF e.errorCode \in {"ACCESS_DENIED", "CONFIGURATION_ERROR"}
    THEN e.errorCode
    ELSE "OTHER"

\* the category a shown message tells of
MessageCategory(m) ==
    IF m = << "Authorization was denied or cancelled" >>
    THEN "ACCESS_DENIED"
    ELSE IF m = << "Invalid developer token - please check and try again" >>
    THEN "CONFIGURATION_ERROR"
    ELSE IF m # << >> /\ Head(m) = "Authorization failed: "
    THEN "OTHER"
    ELSE "NONE"

\* the pages of items received at the requested offsets, joined in the order
\* of the requests
RECURSIVE Concatenation(_, _)
Concatenation(requests, pages) ==
    IF pages = << >> THEN << >>
    ELSE Concatenation(SubSeq(requests, 1, Len(pages) - 1),
                       SubSeq(pages, 1, Len(pages) - 1))
         \o [i \in 1..pages[Len(pages)] |-> requests[Len(pages)] + i]

\* pages are n - 1 full pages and then one page of k < pageSize items; an
\* empty page may follow it and end the call
FullThenShort(pages, n, k) ==
    /\ n \in 1..Len(pages)
    /\ \A i \in 1..(n - 1) : pages[i] = pageSize
    /\ pages[n] = k
    /\ k < pageSize
    /\ \/ Len(pages) = n
       \/ Len(pages) = n + 1 /\ pages[n + 1] = 0

AllWhitespace(token) == \A i \in 1..Len(token) : token[i] = " "

----------------------------------------------------------------------------
(* C1 *)

\* C1 as stated: when instance.authorize() rejects and the side channel then
\* holds a credential, authorize() ends authorized with that credential and
\* with `error` empty.
C1_ErrorLeftEmpty ==
    (AuthorizeEnded /\ last.outcome = "recovered") =>
        /\ musicKitStore.isAuthorized
        /\ Truthy(last.value.side)
        /\ musicKitStore.musicUserToken = last.value.side
        /\ error = Empty

\* C1 amended: when instance.authorize() rejects and the side channel then
\* holds a credential, authorize() ends authorized with that credential and
\* shows no error of its own: `error` is empty, unless a configureMusicKit
\* call that was still awaited failed during the authorization, and then it
\* holds that configuration failure.
C1_RecoveredNotSurfaced ==
    (AuthorizeEnded /\ last.outcome = "recovered") =>
        /\ last.value.thrown
        /\ musicKitStore.isAuthorized
        /\ Truthy(last.value.side)
        /\ musicKitStore.musicUserToken = last.value.side
        /\ ~loading
        /\ error \in {Empty} \cup ConfigureFailures

C1_Witness ==
    /\ AuthorizeEnded
    /\ last.outcome = "recovered"
    /\ last.value.authError.errorCode = "STOREFRONT"
    /\ last.calls = {}
    /\ musicKitStore.musicUserToken = << "v" >>
    /\ error = Empty

----------------------------------------------------------------------------
(* C2 *)

\* C2: when instance.authorize() rejects and every read of the side channel
\* is empty, authorize() ends with the store still configured, not
\* authorized and without a user token, and the message shown tells the
\* category of the rejection.
C2_GenuineFailure ==
    (AuthorizeEnded /\ last.outcome = "failed" /\ last.value.thrown) =>
        /\ last.value.side = Empty
        /\ musicKitStore.isConfigured
        /\ ~musicKitStore.isAuthorized
        /\ musicKitStore.musicUserToken = Empty
        /\ MessageCategory(error) = ErrorCategory(last.value.authError)

C2_Witness ==
    /\ AuthorizeEnded
    /\ last.outcome = "failed"
    /\ last.value.thrown
    /\ last.value.authError.errorCode = "ACCESS_DENIED"
    /\ error = << "Authorization was denied or cancelled" >>
    /\ musicKitStore.isConfigured
    /\ ~musicKitStore.isAuthorized

----------------------------------------------------------------------------
(* C3 *)

\* instance.authorize() resolved in the call that has just ended
ResolvedDirectly ==
    /\ last.op = "authorize"
    /\ last.outcome \in {"direct", "failed"}
    /\ ~last.value.thrown

\* C3 as stated: when instance.authorize() resolves, authorize() ends
\* authorized with the value that call returned and the side channel has not
\* been read.
C3_ResolvedCommitsReturned ==
    (variant = 2 /\ ResolvedDirectly) =>
        /\ musicKitStore.isAuthorized
        /\ musicKitStore.musicUserToken = last.value.returned
        /\ ~last.value.sideRead

\* C3 amended: in variant 2, when instance.authorize() resolves with a
\* non-empty credential, authorize() ends authorized with that credential and
\* the side channel has not been read; when it resolves with an empty value
\* nothing is committed and "No music user token received" is shown.  In
\* variant 1 the call ends authorized with instance.musicUserToken, read after
\* the call, whatever the call returned.
C3_DirectSuccess ==
    ResolvedDirectly =>
        /\ (variant = 2 /\ Truthy(last.value.returned)) =>
               /\ last.outcome = "direct"
               /\ musicKitStore.isAuthorized
               /\ musicKitStore.musicUserToken = last.value.returned
               /\ ~last.value.sideRead
               /\ last.calls = {}
        /\ (variant = 2 /\ ~Truthy(last.value.returned)) =>
               /\ last.outcome = "failed"
               /\ ~musicKitStore.isAuthorized
               /\ musicKitStore.musicUserToken = Empty
               /\ error = << "Authorization failed: ",
                             "No music user token received" >>
        /\ variant = 1 =>
               /\ musicKitStore.isAuthorized
               /\ musicKitStore.musicUserToken = last.value.side
               /\ last.value.sideRead

C3_Witness ==
    /\ variant = 2
    /\ ResolvedDirectly
    /\ last.value.returned = << "u" >>
    /\ musicKitStore.isAuthorized
    /\ musicKitStore.musicUserToken = << "u" >>

----------------------------------------------------------------------------
(* C4 *)

\* C4: a getReplayData() call that ends with a result ends with
\* recentTracks.data equal to the pages it received, joined in the order of
\* the requests; when these are n - 1 full pages and then a page of
\* k < pageSize items, the result is the items 1 .. (n - 1) * pageSize + k of
\* the history, each once and in order.
C4_ConcatenationInOrder ==
    FetchSucceeded =>
        /\ recentTracks =
               Some([data |-> Concatenation(last.value.requests,
                                            last.value.pages)])
        /\ \A n \in 1..Len(last.value.pages), k \in 0..(pageSize - 1) :
               FullThenShort(last.value.pages, n, k) =>
                   recentTracks =
                       Some([data |-> [i \in 1..((n - 1) * pageSize + k) |-> i]])

C4_Witness ==
    /\ FetchSucceeded
    /\ FullThenShort(last.value.pages, 3, ShortPage)
    /\ Len(recentTracks[1].data) = 2 * pageSize + ShortPage
    /\ recentTracks[1].data[2 * pageSize + ShortPage] = 2 * pageSize + ShortPage

----------------------------------------------------------------------------
(* C5 *)

\* the requests and the pages of the getReplayData() call of variant 2 that
\* is running or has just ended
CallRequests ==
    IF fetching.pc # "idle" THEN fetching.requests
    ELSE IF last.op = "getReplayData" /\ last.outcome \in {"ok", "failed"}
    THEN last.value.requests
    ELSE << >>

CallPages ==
    IF fetching.pc # "idle" THEN fetching.pages
    ELSE IF last.op = "getReplayData" /\ last.outcome \in {"ok", "failed"}
    THEN last.value.pages
    ELSE << >>

\* C5: no request is issued after a page of k items with 0 < k < pageSize.
C5_StopsAtShortPage ==
    variant = 2 =>
        \A i \in 1..Len(CallPages) :
            (0 < CallPages[i] /\ CallPages[i] < pageSize) =>
                Len(CallRequests) = i

----------------------------------------------------------------------------
(* C6 *)

\* C6: when a page request after the first fails, getReplayData() ends with
\* recentTracks null and with an error shown.
C6_NoPartialResult ==
    (/\ variant = 2
     /\ last.op = "getReplayData"
     /\ last.outcome = "failed"
     /\ Len(last.value.pages) > 0) =>
        /\ recentTracks = Null
        /\ error # Empty
        /\ Head(error) = "Failed to fetch data: "
        /\ ~loading

C6_Witness ==
    /\ variant = 2
    /\ last.op = "getReplayData"
    /\ last.outcome = "failed"
    /\ last.value.pages = << pageSize, ShortPage >>
    /\ last.value.requests = << 0, pageSize, 2 * pageSize >>
    /\ recentTracks = Null

----------------------------------------------------------------------------
(* C7 *)

\* C7: no request goes to an offset of maxItems or more, and a call in which
\* every page is full ends after maxItems / pageSize requests, at the offsets
\* 0 .. maxItems - pageSize, with maxItems items.
C7_StopsAtMaxItems ==
    variant = 2 =>
        /\ \A i \in 1..Len(CallRequests) : CallRequests[i] < maxItems
        /\ (/\ FetchSucceeded
            /\ \A i \in 1..Len(last.value.pages) :
                   last.value.pages[i] = pageSize) =>
               /\ last.value.requests =
                      [i \in 1..(maxItems \div pageSize) |-> (i - 1) * pageSize]
               /\ Len(recentTracks[1].data) = maxItems

C7_Witness ==
    /\ FetchSucceeded
    /\ last.value.pages = [i \in 1..(maxItems \div pageSize) |-> pageSize]
    /\ Len(recentTracks[1].data) = maxItems

----------------------------------------------------------------------------
(* C8 *)

\* C8: configureMusicKit() with an empty or whitespace-only token ends with
\* its message, has called neither MusicKit.configure nor
\* MusicKit.getInstance, and leaves the store not configured, without
\* developer token and without instance; MusicKit.configure is only ever
\* called with a token that is more than whitespace.
C8_EmptyTokenRefused ==
    last.op = "configureMusicKit" =>
        /\ last.outcome = "refused" =>
               /\ AllWhitespace(last.value)
               /\ error = << "Please enter a developer token" >>
               /\ last.calls = {}
               /\ ~musicKitStore.isConfigured
               /\ musicKitStore.developerToken = Empty
               /\ musicKitStore.instance = Null
        /\ AllWhitespace(last.value) =>
               /\ last.outcome = "refused"
               /\ "configure" \notin last.calls
               /\ "getInstance" \notin last.calls

C8_Witness ==
    /\ last.op = "configureMusicKit"
    /\ last.outcome = "refused"
    /\ last.value = << " " >>
    /\ devToken = << " " >>
    /\ error = << "Please enter a developer token" >>

----------------------------------------------------------------------------
(* C9 *)

\* C9: in every reachable state isConfigured implies isLoaded, isAuthorized
\* implies isConfigured, and a non-empty musicUserToken implies isAuthorized.
C9_StoreInvariant ==
    /\ musicKitStore.isConfigured => musicKitStore.isLoaded
    /\ musicKitStore.isAuthorized => musicKitStore.isConfigured
    /\ Truthy(musicKitStore.musicUserToken) => musicKitStore.isAuthorized

C9_Witness ==
    /\ musicKitStore.isLoaded
    /\ musicKitStore.isConfigured
    /\ musicKitStore.isAuthorized
    /\ Truthy(musicKitStore.musicUserToken)
    /\ last.op = "configureMusicKit"
    /\ last.outcome = "failed"

----------------------------------------------------------------------------
(* C10 *)

\* C10: no step sets isLoaded, isConfigured or isAuthorized back to false.
C10_Monotonic ==
    [][ /\ musicKitStore.isLoaded => musicKitStore'.isLoaded
        /\ musicKitStore.isConfigured => musicKitStore'.isConfigured
        /\ musicKitStore.isAuthorized => musicKitStore'.isAuthorized ]_vars

C10_Witness ==
    /\ musicKitStore.isLoaded
    /\ musicKitStore.isConfigured
    /\ musicKitStore.isAuthorized
    /\ last.op = "configureMusicKit"
    /\ last.outcome = "ok"

----------------------------------------------------------------------------
(* C11 *)

\* C11: within a getReplayData() call the requests go to the offsets
\* 0, pageSize, 2 * pageSize, ... in this order, the request after the first
\* i requests is issued only when the i-th has been answered with a page, and
\* at most one request is unanswered at any time.
C11_Sequential ==
    variant = 2 =>
        /\ \A i \in 1..Len(CallRequests) :
               CallRequests[i] = (i - 1) * pageSize
        /\ Len(CallRequests) <= Len(CallPages) + 1
        /\ fetching.pc \in {"page", "body"} =>
               /\ Len(fetching.requests) = Len(fetching.pages) + 1
               /\ Len(fetching.requests) <= maxItems \div pageSize
               /\ fetching.offset = fetching.requests[Len(fetching.requests)]
               /\ Len(fetching.allTracks) <= fetching.offset
        /\ fetching.pc = "errorText" =>
               Len(fetching.requests) = Len(fetching.pages) + 1

C11_Witness ==
    /\ variant = 2
    /\ fetching.pc = "page"
    /\ fetching.requests = << 0, pageSize, 2 * pageSize >>
    /\ fetching.pages = << pageSize, ShortPage >>

----------------------------------------------------------------------------
(* C12 *)

\* a configureMusicKit() call has just failed in MusicKit.configure or
\* MusicKit.getInstance
ConfigureFailed ==
    /\ last.op = "configureMusicKit"
    /\ last.outcome = "failed"

\* C12: the step in which MusicKit.configure or MusicKit.getInstance fails
\* leaves the store as it was and leaves a "Configuration failed" message; a
\* store that was not configured is still not configured, without developer
\* token and without instance, and the page offers the configuration again.
C12_NoPartialState ==
    [][ ((ConfigureSync \/ ConfigureSettle) /\ ConfigureFailed') =>
            /\ musicKitStore' = musicKitStore
            /\ error' \in ConfigureFailures
            /\ ~musicKitStore.isConfigured =>
                   /\ ~musicKitStore'.isConfigured
                   /\ musicKitStore'.developerToken = Empty
                   /\ musicKitStore'.instance = Null
                   /\ OffersConfigure' ]_vars

C12_Witness ==
    /\ ConfigureFailed
    /\ "getInstance" \in last.calls
    /\ ~musicKitStore.isConfigured
    /\ musicKitStore.developerToken = Empty
    /\ musicKitStore.instance = Null
    /\ error = << "Configuration failed: ", "getInstanceThrows" >>
    /\ OffersConfigure

----------------------------------------------------------------------------
(* C16 *)

\* the items of the pages received at the requested offsets
ItemsOf(requests, pages) ==
    UNION { { requests[j] + k : k \in 1..pages[j] } : j \in 1..Len(pages) }

RECURSIVE Sum(_)
Sum(lens) == IF lens = << >> THEN 0 ELSE Head(lens) + Sum(Tail(lens))

\* C16: recentTracks holds nothing while a getReplayData() call runs, holds
\* nothing after a call that failed, whether or not a call before it had
\* left a result, and after a call that ended with a result it holds the
\* items of the pages received by that call and no others.
C16_ReplacedWholesale ==
    /\ fetching.pc # "idle" => recentTracks = Null
    /\ (last.op = "getReplayData" /\ last.outcome = "failed") =>
           recentTracks = Null
    /\ (last.op = "getReplayData" /\ last.outcome = "ok") =>
           /\ recentTracks # Null
           /\ Len(recentTracks[1].data) = Sum(last.value.pages)
           /\ { recentTracks[1].data[i] : i \in 1..Len(recentTracks[1].data) }
                  = ItemsOf(last.value.requests, last.value.pages)

C16_Witness ==
    /\ variant = 2
    /\ last.op = "getReplayData"
    /\ last.outcome = "failed"
    /\ last.value.hadResult
    /\ Len(last.value.pages) > 0
    /\ recentTracks = Null

----------------------------------------------------------------------------
(* C17 *)

\* a step of getReplayData()
FetchStep ==
    \/ FetchStart
    \/ ReplayResponds
    \/ ReplayBodySettles
    \/ RecentResponds
    \/ RecentBodySettles
    \/ PageFails
    \/ ErrorTextSettles
    \/ PageResponds
    \/ BodyFails
    \/ PageArrives

\* C17: no step of getReplayData() changes the session store, whether the
\* call goes on, ends with a result, or fails on a status or in transport;
\* the step in which the call fails leaves a non-empty error, and the page
\* offers the call again.
C17_StoreUntouched ==
    [][ FetchStep =>
            /\ musicKitStore' = musicKitStore
            /\ (last'.op = "getReplayData" /\ last'.outcome = "failed") =>
                   /\ error' # Empty
                   /\ OffersFetch' ]_vars

C17_Witness ==
    /\ variant = 2
    /\ last.op = "getReplayData"
    /\ last.outcome = "failed"
    /\ last.value.pages = << >>
    /\ error = << "Failed to fetch data: ", "network" >>
    /\ musicKitStore.isAuthorized
    /\ musicKitStore.musicUserToken = << "u" >>
    /\ OffersFetch

----------------------------------------------------------------------------
(* C18 *)

\* C18: once configureMusicKit has committed, the developerToken of the
\* store is the token that this call passed to MusicKit.configure, and a
\* configured store holds a developerToken that is not empty.
C18_TokenPassedIsStored ==
    /\ (last.op = "configureMusicKit" /\ last.outcome = "ok") =>
           musicKitStore.developerToken = last.value
    /\ musicKitStore.isConfigured => musicKitStore.developerToken # Empty

----------------------------------------------------------------------------
(* C19 *)

\* C19: a store that is authorized holds a musicUserToken that is not empty.
C19_AuthorizedHasToken ==
    musicKitStore.isAuthorized => Truthy(musicKitStore.musicUserToken)

----------------------------------------------------------------------------
(* C20 *)

\* an awaited call of authorize() settles
AuthorizeSettles ==
    \/ AuthorizeResolves1
    \/ AuthorizeRejects1
    \/ AuthorizeResolves2
    \/ AuthorizeRejects2
    \/ DelayElapsed
    \/ ApiTokenSettles

\* an awaited call of getReplayData() settles
FetchSettles ==
    \/ ReplayResponds
    \/ ReplayBodySettles
    \/ RecentResponds
    \/ RecentBodySettles
    \/ PageFails
    \/ ErrorTextSettles
    \/ PageResponds
    \/ BodyFails
    \/ PageArrives

\* every awaited SDK or network call settles in the end
FairSpec == Spec /\ WF_vars(AuthorizeSettles) /\ WF_vars(FetchSettles)

\* C20: loading is true exactly while an authorize() or getReplayData()
\* call started from the page is running, never two of them at once, and
\* when the awaited calls settle every such call ends and loading is false
\* again.
C20_LoadingReleased ==
    /\ [](loading <=> (auth.pc # "idle" \/ fetching.pc # "idle"))
    /\ [](auth.pc = "idle" \/ fetching.pc = "idle")
    /\ (auth.pc # "idle") ~> (auth.pc = "idle" /\ ~loading)
    /\ (fetching.pc # "idle") ~> (fetching.pc = "idle" /\ ~loading)

C20_Witness ==
    /\ variant = 2
    /\ last.op = "authorize"
    /\ last.outcome = "recovered"
    /\ auth.pc = "idle"
    /\ ~loading
    /\ OffersFetch

----------------------------------------------------------------------------
(* extractRecentTracks and the track list *)

\* a raw track: attributes may be missing, and so may each attribute; a
\* missing string is Empty.  playlistId stands for playParams?.playlistId
RawTracks ==
    { [attributes |-> Null] } \cup
    { [attributes |-> Some([name |-> n, artistName |-> a, albumName |-> l,
                            playlistId |-> p])] :
        n \in {Empty, << "s" >>, << "t" >>},
        a \in {Empty, << "r" >>},
        l \in {Empty, << "l" >>},
        p \in {Empty, << "p" >>} }

\* item.attributes?.field
Attribute(item, field) ==
    IF item.attributes = Null THEN Empty ELSE item.attributes[1][field]

\* a default that is never applied
OrDefaultNever(value, default) == value

\* value || default
OrDefault(value, default) == IF Truthy(value) THEN value ELSE default

\* the record extractRecentTracks makes of one raw track
Track(item) ==
    [ title |-> OrDefault(Attribute(item, "name"), << "Unknown" >>),
      artist |-> OrDefault(Attribute(item, "artistName"), << "Unknown" >>),
      album |-> OrDefault(Attribute(item, "albumName"), << "Unknown" >>),
      playedAt |-> OrDefault(Attribute(item, "playlistId"), Empty) ]

extractRecentTracks(tracks) ==
    IF tracks = Null THEN << >>
    ELSE [j \in 1..Len(tracks[1].data) |-> Track(tracks[1].data[j])]

\* {#each extractRecentTracks() as track, i}: the entry of the zero-based
\* index i shows i + 1
TrackList(tracks) ==
    [j \in 1..Len(tracks) |-> [number |-> (j - 1) + 1, track |-> tracks[j]]]

\* the lists of at most n members of S
ListsUpTo(S, n) == UNION { [1..k -> S] : k \in 0..n }

\* the page with any list of raw tracks as its result, or none
InitTracks ==
    /\ variant = 2
    /\ mount = "done"
    /\ musicKitStore =
           AuthorizedStore(ConfiguredStore(LoadedStore(InitialStore),
                                           << "a" >>, Instance), << "u" >>)
    /\ devToken = << "a" >>
    /\ replayData = Null
    /\ recentTracks \in
           {Null} \cup { Some([data |-> d]) : d \in ListsUpTo(RawTracks, MaxTracks) }
    /\ error = Empty
    /\ loading = FALSE
    /\ configuring = << >>
    /\ auth = AuthIdle
    /\ fetching = FetchIdle
    /\ last = Did("getReplayData", "ok", {})

\* the results block is rendered
RenderTracks ==
    /\ last' = DidWith("extractRecentTracks", "ok", {},
                       TrackList(extractRecentTracks(recentTracks)))
    /\ UNCHANGED << variant, mount, musicKitStore, devToken, replayData,
                    recentTracks, error, loading, configuring, auth, fetching >>

SpecTracks == InitTracks /\ [][RenderTracks]_vars

----------------------------------------------------------------------------
(* C14 *)

\* the raw tracks the rendered list was made of
RawInput == IF recentTracks = Null THEN << >> ELSE recentTracks[1].data

\* the field of the raw track is there
Present(item, field) ==
    /\ item.attributes # Null
    /\ item.attributes[1][field] # Empty

\* C14: the rendered list has one entry per raw track, in the order of the
\* raw tracks, the entry at the zero-based position i is numbered i + 1, and
\* title, artist and album hold the raw track's name, artistName and
\* albumName, or "Unknown" where that is absent, and are never empty.
C14_TotalOrderPreserving ==
    last.op = "extractRecentTracks" =>
        /\ Len(last.value) = Len(RawInput)
        /\ \A j \in 1..Len(last.value) :
               LET item == RawInput[j]
                   track == last.value[j].track
               IN
               /\ last.value[j].number = j
               /\ track.title # Empty /\ track.artist # Empty
               /\ track.album # Empty
               /\ track.title = IF Present(item, "name")
                                THEN item.attributes[1].name
                                ELSE << "Unknown" >>
               /\ track.artist = IF Present(item, "artistName")
                                 THEN item.attributes[1].artistName
                                 ELSE << "Unknown" >>
               /\ track.album = IF Present(item, "albumName")
                                THEN item.attributes[1].albumName
                                ELSE << "Unknown" >>

C14_Witness ==
    /\ last.op = "extractRecentTracks"
    /\ Len(RawInput) = 2
    /\ RawInput[1].attributes = Null
    /\ Present(RawInput[2], "name")
    /\ ~Present(RawInput[2], "albumName")
    /\ last.value[1].track.title = << "Unknown" >>
    /\ last.value[2].track.title = << "t" >>
    /\ last.value[2].track.album = << "Unknown" >>
    /\ last.value[2].number = 2

----------------------------------------------------------------------------
(* C13 *)

\* C13: while a getReplayData() call has a request out, the headers of its
\* requests hold the developer token and the user token of the store, and the
\* user token is not empty: a call made while the store is not authorized
\* issues no request.
C13_CredentialsCarried ==
    (variant = 2 /\ fetching.pc # "idle") =>
        /\ fetching.headers.Authorization =
               << "Bearer " >> \o musicKitStore.developerToken
        /\ fetching.headers.MusicUserToken = musicKitStore.musicUserToken
        /\ Truthy(fetching.headers.MusicUserToken)
        /\ musicKitStore.isAuthorized

----------------------------------------------------------------------------
(* C15 *)

\* an authorize() call that found no instance has just ended
EndedWithoutInstance ==
    /\ last.op = "authorize"
    /\ last.outcome = "failed"
    /\ last.value.authError.name = "TypeError"

\* C15: an authorize() call made while the store holds no instance never
\* leaves the store authorized or with a user token, is never suspended in
\* the recovery wait, and does not end with an authorization failure message.
C15_FailsFast ==
    variant = 2 =>
        /\ musicKitStore.instance = Null =>
               /\ ~musicKitStore.isAuthorized
               /\ musicKitStore.musicUserToken = Empty
        /\ (auth.pc # "idle" /\ auth.instance = Null) => auth.pc # "delay"
        /\ EndedWithoutInstance => MessageCategory(error) = "NONE"

====
